---------------------------- MODULE Spec2Model ----------------------------
(***************************************************************************)
(* The agent loop of kimi-writer.py (main, lines 171-529) as a state       *)
(* machine: the message history, the token check with threshold            *)
(* compression, the periodic backup, the streamed model call and its       *)
(* accumulation into one assistant message, the tool dispatch loop, and    *)
(* the three ways out of the loop (break, exhausted range, interrupt).     *)
(*                                                                         *)
(* Python dicts are records whose DOMAIN is the dict's key set; Python     *)
(* str values are TLA+ strings and += is \o.  Console output is not        *)
(* modelled (the *_header_printed flags and last_tool_index only drive     *)
(* printing).                                                              *)
(***************************************************************************)
EXTENDS Integers, Sequences, FiniteSets, TLC

(***************************************************************************)
(* Program constants.  COMPRESSION_THRESHOLD has its source value.  The    *)
(* iteration cap (300 in the source), the backup interval (50) and the     *)
(* keep_recent literal of the shrinking compressions (10) are scaled down  *)
(* so that the cap, a backup iteration and a shrinking compression all     *)
(* fall inside the explored runs.                                          *)
(***************************************************************************)
COMPRESSION_THRESHOLD == 180000

MAX_ITERATIONS == 2

BACKUP_INTERVAL == 2

KEEP_RECENT == 2

\* Chunks one stream of the agent loop delivers at most.
MaxChunks == 2

\* Chunks the stream of the accumulator specification delivers at most.
MaxAccumChunks == 3

\* Python's None.
None == "<None>"

\* Python truthiness of an Optional[str].
Truthy(v) == v # None /\ v # ""

VARIABLES
    messages,           \* the message history (list of dicts)
    iteration,          \* the for loop's variable
    pc,                 \* where control is
    token_count,        \* main's token_count
    role,               \* accumulators of the stream loop ...
    reasoning_content,
    content_text,
    tool_calls_data,
    tool_calls,         \* message.tool_calls, the list the dispatch loop walks
    tc_pos,             \* position of the dispatch loop in tool_calls (1-based)
    exit_code,          \* {} while the process runs, then {its exit status}
    stream_log,         \* history: the chunks of the current stream, in order
    trace,              \* history: the steps of the current iteration, in order
    request,            \* history: the messages the latest model call was
                        \* issued with, <<>> before the first
    answers,            \* history: the tool messages appended for tool_calls
    completed           \* history: the loop was left by the break of line 430

vars == <<messages, iteration, pc, token_count, role, reasoning_content,
          content_text, tool_calls_data, tool_calls, tc_pos, exit_code,
          stream_log, trace, request, answers, completed>>

accum == <<role, reasoning_content, content_text, tool_calls_data>>

-----------------------------------------------------------------------------
(* Collaborators that live outside kimi-writer.py.                          *)

\* utils.get_system_prompt() and the command line's prompt / recovery file.
SystemPrompt == "system prompt"

UserPrompts == {"write a haiku"}

Snapshots == {"summary of earlier work"}

\* utils.get_tool_map(): the registry's names.
ToolMapNames == {"write_file", "compress_context"}

\* What a registry callable returns.
ToolResults == {"ok"}

\* The summary Turn the compressor synthesizes.
SummaryTurn ==
    [role |-> "user", content |-> "[CONTEXT SUMMARY]"]

\* The last k elements of s.
LastK(s, k) == SubSeq(s, Len(s) - k + 1, Len(s))

\* tools.compression.compress_context_impl(messages, client, model, keep_recent)
\* when it returns: the recovery snapshot is always written; a replacement
\* history (system Turn, summary Turn, the last keep_recent Turns verbatim)
\* is returned when there is something older than the tail to summarize.
CompressContextImpl(msgs, keep_recent) ==
    IF Len(msgs) > keep_recent + 1
    THEN [message |-> "Context compressed",
          compressed_messages |-> <<msgs[1], SummaryTurn>> \o LastK(msgs, keep_recent),
          tokens_saved |-> 1,
          summary_file |-> "context_summary.md"]
    ELSE [message |-> "Not enough messages to compress",
          summary_file |-> "context_summary.md"]

\* utils.estimate_token_count's possible results.
TokenCounts == {COMPRESSION_THRESHOLD - 1, COMPRESSION_THRESHOLD}

-----------------------------------------------------------------------------
(* json.loads of an argument string (lines 439-442).                        *)

\* Documents that parse to a dict, with the dict they parse to.
JsonObjectTexts == {"{}", "{\"k\":1}"}

\* Documents that parse to something that is not a dict.
JsonOtherTexts == {"1", "[]"}

JsonLoads(s) ==
    IF s \in JsonObjectTexts
    THEN [ok |-> TRUE, isdict |-> TRUE,
          value |-> IF s = "{}" THEN {} ELSE {<<"k", 1>>}]
    ELSE IF s \in JsonOtherTexts
    THEN [ok |-> TRUE, isdict |-> FALSE, value |-> s]
    ELSE [ok |-> FALSE]

\* A variant of ParseArgs that makes up arguments when the parse fails.
ParseArgsMakesUp(args_str) ==
    LET r == JsonLoads(args_str)
    IN  IF r.ok THEN [isdict |-> r.isdict, value |-> r.value]
        ELSE [isdict |-> TRUE, value |-> {<<"k", 1>>}]

\* try: args = json.loads(args_str) except json.JSONDecodeError: args = {}
ParseArgs(args_str) ==
    LET r == JsonLoads(args_str)
    IN  IF r.ok THEN [isdict |-> r.isdict, value |-> r.value]
        ELSE [isdict |-> TRUE, value |-> {}]

-----------------------------------------------------------------------------
(* The streaming accumulator (lines 292-380).  A chunk's delta is           *)
(* [role, reasoning_content, content, tool_calls]; absent parts are None    *)
(* and tool_calls is a sequence of [index, id, function], function being    *)
(* NoFunction (Python's None there) or [name, arguments].                   *)

\* tc_delta.function when the chunk carries no function object.
NoFunction == [absent |-> TRUE]

\* The placeholder of lines 347-352.
EmptySlot ==
    [id |-> None, type |-> "function",
     function |-> [name |-> "", arguments |-> ""], chars_received |-> 0]

\* while len(tool_calls_data) <= tc_delta.index: tool_calls_data.append({...})
RECURSIVE ExtendSlots(_, _)
ExtendSlots(data, index) ==
    IF Len(data) <= index THEN ExtendSlots(Append(data, EmptySlot), index)
    ELSE data

\* A variant of SlotId that keeps the first id a slot was given.
SlotIdFirstWins(tc, tc_delta) ==
    IF Truthy(tc_delta.id) /\ ~Truthy(tc.id) THEN tc_delta.id ELSE tc.id

\* Lines 367-368: if tc_delta.id: tc["id"] = tc_delta.id
SlotId(tc, tc_delta) ==
    IF Truthy(tc_delta.id) THEN tc_delta.id ELSE tc.id

\* Lines 370-371: if tc_delta.function.name: tc["function"]["name"] = ...
SlotName(tc, tc_delta) ==
    IF Truthy(tc_delta.function.name) THEN tc_delta.function.name
    ELSE tc.function.name

\* A variant of SlotArguments that assigns the fragment instead of
\* appending it.
SlotArgumentsOverwritten(tc, tc_delta) ==
    IF Truthy(tc_delta.function.arguments)
    THEN tc_delta.function.arguments
    ELSE tc.function.arguments

\* Lines 372-373: if tc_delta.function.arguments: arguments += ...
SlotArguments(tc, tc_delta) ==
    IF Truthy(tc_delta.function.arguments)
    THEN tc.function.arguments \o tc_delta.function.arguments
    ELSE tc.function.arguments

\* Lines 354-374 for one tc_delta whose function is an object.
UpdateSlot(tc, tc_delta) ==
    [id |-> SlotId(tc, tc_delta),
     type |-> tc.type,
     function |-> [name |-> SlotName(tc, tc_delta),
                   arguments |-> SlotArguments(tc, tc_delta)],
     chars_received |-> Len(SlotArguments(tc, tc_delta))]

\* Lines 344-374: the for loop over delta.tool_calls.  tc_delta.function.name
\* of a tc_delta whose function is None raises AttributeError (line 370).
RECURSIVE ApplyToolCallDeltas(_, _)
ApplyToolCallDeltas(data, deltas) ==
    IF deltas = <<>> THEN [raised |-> FALSE, data |-> data]
    ELSE LET tc_delta == Head(deltas)
             ext == ExtendSlots(data, tc_delta.index)
             slot == tc_delta.index + 1
         IN  IF tc_delta.function = NoFunction
             THEN [raised |-> TRUE, data |-> ext]
             ELSE ApplyToolCallDeltas(
                      [ext EXCEPT ![slot] = UpdateSlot(ext[slot], tc_delta)],
                      Tail(deltas))

\* A variant of SurvivingToolCalls that keeps every slot.
AllSlotsAsToolCalls(data) ==
    [i \in 1..Len(data) |->
        [id |-> data[i].id, type |-> "function",
         function |-> [name |-> data[i].function.name,
                       arguments |-> data[i].function.arguments]]]

\* Lines 399-415, ReconstructedMessage.tool_calls: the slots that have an id,
\* in slot order.  With no slot at all the attribute stays None, which the
\* code only ever tests for truth (lines 148, 424), as it does the empty
\* list: both are <<>> here.
SurvivingToolCalls(data) ==
    LET F[i \in 0..Len(data)] ==
            IF i = 0 THEN <<>>
            ELSE IF Truthy(data[i].id)
                 THEN Append(F[i - 1],
                             [id |-> data[i].id, type |-> "function",
                              function |-> [name |-> data[i].function.name,
                                            arguments |-> data[i].function.arguments]])
                 ELSE F[i - 1]
    IN  F[Len(data)]

ReconstructedMessage(r, content, reasoning, data) ==
    [role |-> IF Truthy(r) THEN r ELSE "assistant",
     content |-> IF content # "" THEN content ELSE None,
     reasoning_content |-> IF reasoning # "" THEN reasoning ELSE None,
     tool_calls |-> SurvivingToolCalls(data)]

\* A variant of ConvertMessageForApi that drops the content.
ConvertMessageForApiWithoutContent(msg) ==
    LET base == [role |-> msg.role]
        r == IF Truthy(msg.reasoning_content)
             THEN [reasoning_content |-> msg.reasoning_content] ELSE base
        t == IF msg.tool_calls # <<>>
             THEN [tool_calls |-> msg.tool_calls] ELSE base
    IN  base @@ r @@ t

\* Lines 119-168, convert_message_for_api of a message object: only the
\* truthy parts become keys of the dict.
ConvertMessageForApi(msg) ==
    LET base == [role |-> msg.role]
        c == IF Truthy(msg.content) THEN [content |-> msg.content] ELSE base
        r == IF Truthy(msg.reasoning_content)
             THEN [reasoning_content |-> msg.reasoning_content] ELSE base
        t == IF msg.tool_calls # <<>>
             THEN [tool_calls |-> msg.tool_calls] ELSE base
    IN  base @@ c @@ r @@ t

\* not message.tool_calls (line 424)
NoToolCalls(msg) == msg.tool_calls = <<>>

-----------------------------------------------------------------------------
(* The state after lines 171-228.                                           *)

\* A variant of InitialMessages that hands the recovered context over as a
\* second system Turn.
InitialMessagesRecoveredAsSystem(user_prompt, is_recovery) ==
    << [role |-> "system", content |-> SystemPrompt],
       [role |-> IF is_recovery THEN "system" ELSE "user",
        content |-> user_prompt] >>

\* Lines 199-215: the initial history, fresh or in recovery mode.
InitialMessages(user_prompt, is_recovery) ==
    << [role |-> "system", content |-> SystemPrompt],
       [role |-> "user",
        content |-> IF is_recovery
                    THEN "[RECOVERED CONTEXT]\n\n" \o user_prompt
                         \o "\n\n[END RECOVERED CONTEXT]\n\nPlease continue the work from where we left off."
                    ELSE user_prompt] >>

Init ==
    /\ \/ \E p \in UserPrompts : messages = InitialMessages(p, FALSE)
       \/ \E p \in Snapshots : messages = InitialMessages(p, TRUE)
    /\ iteration = 1
    /\ pc = "estimate"
    /\ token_count = 0
    /\ role = None
    /\ reasoning_content = ""
    /\ content_text = ""
    /\ tool_calls_data = <<>>
    /\ tool_calls = <<>>
    /\ tc_pos = 1
    /\ exit_code = {}
    /\ stream_log = <<>>
    /\ trace = <<[op |-> "begin", after |-> "start"]>>
    /\ answers = <<>>
    /\ request = <<>>
    /\ completed = FALSE

-----------------------------------------------------------------------------
(* Control transfers shared by the actions.                                 *)

\* A variant of BackupDue that has the backup run in every iteration.
BackupDueAlways(i) == i >= 1

\* Line 265: the periodic backup runs in the multiples of BACKUP_INTERVAL.
BackupDue(i) == i % BACKUP_INTERVAL = 0

\* After the token check (line 263): the backup block or the model call.
AfterTokenCheck(i) == IF BackupDue(i) THEN "backup" ELSE "call"

\* A variant of AfterLoop that never takes the branch of line 510.
AfterLoopNoCap(i) == IF i > MAX_ITERATIONS THEN "cap_save" ELSE "exit"

\* Line 510 once the loop is left with loop variable i.
AfterLoop(i) == IF i >= MAX_ITERATIONS THEN "cap_save" ELSE "exit"

\* The end of an iteration's body, by falling off it or by the continue of
\* line 507: the next value of range(1, MAX_ITERATIONS + 1), or line 510
\* when the range is exhausted (iteration keeps its last value).  tr is the
\* iteration's history so far and reason how its body ended.
NextIteration(tr, reason) ==
    IF iteration < MAX_ITERATIONS
    THEN /\ iteration' = iteration + 1
         /\ pc' = "estimate"
         /\ trace' = <<[op |-> "begin", after |-> reason]>>
         /\ exit_code' = exit_code
    ELSE /\ iteration' = iteration
         /\ pc' = AfterLoop(iteration)
         /\ trace' = Append(tr, [op |-> "exhausted", after |-> reason])
         /\ exit_code' = IF AfterLoop(iteration) = "exit" THEN {0} ELSE exit_code

-----------------------------------------------------------------------------
(* The token check, lines 236-262.                                          *)

\* The entry the history keeps of one call of the compressor.
CompressStep(site, keep_recent, outcome) ==
    [op |-> "compress", site |-> site, keep_recent |-> keep_recent,
     outcome |-> outcome]

\* A variant of OverThreshold that lets a count equal to the threshold pass.
OverThresholdStrict(n) == n > COMPRESSION_THRESHOLD

\* Line 242: the condition that triggers the threshold compression.
OverThreshold(n) == n >= COMPRESSION_THRESHOLD

\* Line 238 returns n.
EstimateTokens(n) ==
    /\ pc = "estimate"
    /\ token_count' = n
    /\ pc' = IF OverThreshold(n) THEN "compress" ELSE AfterTokenCheck(iteration)
    /\ trace' = Append(trace, [op |-> "estimate", count |-> n])
    /\ UNCHANGED <<messages, iteration, accum, tool_calls, tc_pos, exit_code,
                   stream_log, request, answers, completed>>

\* A variant of EstimateRaises that compresses when the count is unknown.
EstimateRaisesCompresses ==
    /\ pc = "estimate"
    /\ token_count' = 0
    /\ pc' = "compress"
    /\ trace' = Append(trace, [op |-> "estimate_raised"])
    /\ UNCHANGED <<messages, iteration, accum, tool_calls, tc_pos, exit_code,
                   stream_log, request, answers, completed>>

\* Line 238 raises: except Exception, token_count = 0 (lines 260-262).
EstimateRaises ==
    /\ pc = "estimate"
    /\ token_count' = 0
    /\ pc' = AfterTokenCheck(iteration)
    /\ trace' = Append(trace, [op |-> "estimate_raised"])
    /\ UNCHANGED <<messages, iteration, accum, tool_calls, tc_pos, exit_code,
                   stream_log, request, answers, completed>>

\* Lines 244-252: the compressor returns; its replacement, when it gives one,
\* becomes the history and the tokens are counted again.
ThresholdCompress ==
    /\ pc = "compress"
    /\ LET compression_result == CompressContextImpl(messages, KEEP_RECENT)
       IN  IF "compressed_messages" \in DOMAIN compression_result
           THEN /\ messages' = compression_result.compressed_messages
                /\ pc' = "reestimate"
                /\ trace' = Append(trace,
                       CompressStep("threshold", KEEP_RECENT, "replaced")
                           @@ [store |-> compression_result.compressed_messages])
           ELSE /\ messages' = messages
                /\ pc' = AfterTokenCheck(iteration)
                /\ trace' = Append(trace,
                                   CompressStep("threshold", KEEP_RECENT, "kept"))
    /\ UNCHANGED <<iteration, token_count, accum, tool_calls, tc_pos, exit_code,
                   stream_log, request, answers, completed>>

\* A variant of ThresholdCompressRaises in which the error leaves main.
ThresholdCompressRaisesOut ==
    /\ pc = "compress"
    /\ pc' = "crashed"
    /\ exit_code' = {1}
    /\ trace' = Append(trace, CompressStep("threshold", KEEP_RECENT, "raised"))
    /\ UNCHANGED <<messages, iteration, token_count, accum, tool_calls, tc_pos,
                   stream_log, request, answers, completed>>

\* Lines 244-249 raise: the same except Exception as the estimate's.
ThresholdCompressRaises ==
    /\ pc = "compress"
    /\ token_count' = 0
    /\ pc' = AfterTokenCheck(iteration)
    /\ trace' = Append(trace, CompressStep("threshold", KEEP_RECENT, "raised"))
    /\ UNCHANGED <<messages, iteration, accum, tool_calls, tc_pos, exit_code,
                   stream_log, request, answers, completed>>

\* Line 257 returns n.
ReestimateTokens(n) ==
    /\ pc = "reestimate"
    /\ token_count' = n
    /\ pc' = AfterTokenCheck(iteration)
    /\ trace' = Append(trace, [op |-> "reestimate", count |-> n])
    /\ UNCHANGED <<messages, iteration, accum, tool_calls, tc_pos, exit_code,
                   stream_log, request, answers, completed>>

\* Line 257 raises: token_count = 0, the replaced history stays.
ReestimateRaises ==
    /\ pc = "reestimate"
    /\ token_count' = 0
    /\ pc' = AfterTokenCheck(iteration)
    /\ trace' = Append(trace, [op |-> "reestimate_raised"])
    /\ UNCHANGED <<messages, iteration, accum, tool_calls, tc_pos, exit_code,
                   stream_log, request, answers, completed>>

-----------------------------------------------------------------------------
(* The periodic backup, lines 264-277.  Whether the compressor returns or  *)
(* raises, nothing of it is kept: the result is only printed.               *)

Backup ==
    /\ pc = "backup"
    /\ pc' = "call"
    /\ trace' = Append(trace, CompressStep("backup", Len(messages), "ignored"))
    /\ UNCHANGED <<messages, iteration, token_count, accum, tool_calls, tc_pos,
                   exit_code, stream_log, request, answers, completed>>

\* Lines 268-273 raise: except Exception, a warning (lines 276-277).
BackupRaises ==
    /\ pc = "backup"
    /\ pc' = "call"
    /\ trace' = Append(trace, CompressStep("backup", Len(messages), "ignored"))
    /\ UNCHANGED <<messages, iteration, token_count, accum, tool_calls, tc_pos,
                   exit_code, stream_log, request, answers, completed>>

-----------------------------------------------------------------------------
(* The model call and its stream, lines 280-380.                            *)

\* Lines 283-303: the request is accepted and the accumulators are reset.
CallModel ==
    /\ pc = "call"
    /\ pc' = "stream"
    /\ request' = messages
    /\ role' = None
    /\ reasoning_content' = ""
    /\ content_text' = ""
    /\ tool_calls_data' = <<>>
    /\ stream_log' = <<>>
    /\ trace' = Append(trace, [op |-> "call"])
    /\ UNCHANGED <<messages, iteration, token_count, tool_calls, tc_pos,
                   exit_code, answers, completed>>

\* Line 283 raises: except Exception, continue (lines 504-507).
CallModelRaises ==
    /\ pc = "call"
    /\ request' = messages
    /\ NextIteration(trace, "call_raised")
    /\ UNCHANGED <<messages, token_count, accum, tool_calls, tc_pos,
                   stream_log, answers, completed>>

\* Lines 307-308: a chunk without choices is skipped.
StreamEmptyChunk ==
    /\ pc = "stream"
    /\ UNCHANGED vars

\* Lines 310-380 for one chunk with delta d.  A tc_delta without a function
\* object raises AttributeError, which ends the iteration like any other
\* error (lines 504-507); the accumulators are then never read again.
StreamChunk(d, bound) ==
    /\ pc = "stream"
    /\ Len(stream_log) < bound
    /\ LET r == ApplyToolCallDeltas(tool_calls_data, d.tool_calls)
       IN  /\ role' = IF Truthy(d.role) THEN d.role ELSE role
           /\ reasoning_content' =
                  IF Truthy(d.reasoning_content)
                  THEN reasoning_content \o d.reasoning_content
                  ELSE reasoning_content
           /\ content_text' =
                  IF Truthy(d.content) THEN content_text \o d.content
                  ELSE content_text
           /\ tool_calls_data' = r.data
           /\ stream_log' = Append(stream_log, d)
           /\ IF r.raised
              THEN NextIteration(trace, "chunk_raised")
              ELSE UNCHANGED <<iteration, pc, trace, exit_code>>
    /\ UNCHANGED <<messages, token_count, tool_calls, tc_pos, request,
                   answers, completed>>

\* A variant of StreamRaises that flushes what was accumulated into the
\* history before the iteration is abandoned.
StreamRaisesKeepsPartial ==
    /\ pc = "stream"
    /\ messages' = Append(messages,
                          ConvertMessageForApi(
                              ReconstructedMessage(role, content_text,
                                                   reasoning_content, tool_calls_data)))
    /\ NextIteration(trace, "stream_raised")
    /\ UNCHANGED <<token_count, accum, tool_calls, tc_pos,
                   stream_log, request, answers, completed>>

\* The iteration over the stream raises (transport or provider error):
\* except Exception, continue.
StreamRaises ==
    /\ pc = "stream"
    /\ NextIteration(trace, "stream_raised")
    /\ UNCHANGED <<messages, token_count, accum, tool_calls, tc_pos,
                   stream_log, request, answers, completed>>

\* Lines 382-433: the stream ends, the message is reconstructed and appended;
\* without tool calls the loop is left by break, else the dispatch begins.
StreamEnd ==
    /\ pc = "stream"
    /\ LET message == ReconstructedMessage(role, content_text,
                                           reasoning_content, tool_calls_data)
       IN  /\ messages' = Append(messages, ConvertMessageForApi(message))
           /\ tool_calls' = message.tool_calls
           /\ tc_pos' = 1
           /\ answers' = <<>>
           /\ trace' = Append(trace, [op |-> "finalize",
                                      n |-> Len(message.tool_calls)])
           /\ IF NoToolCalls(message)
              THEN /\ completed' = TRUE
                   /\ pc' = AfterLoop(iteration)
                   /\ exit_code' = IF AfterLoop(iteration) = "exit" THEN {0}
                                   ELSE exit_code
              ELSE /\ completed' = completed
                   /\ pc' = "dispatch"
                   /\ exit_code' = exit_code
    /\ UNCHANGED <<iteration, token_count, accum, stream_log, request>>

-----------------------------------------------------------------------------
(* The dispatch loop, lines 435-484: one action per invocation and outcome. *)

\* The invocation the loop is at.
CurrentToolCall == tool_calls[tc_pos]

\* Lines 477-483.
ToolMessage(tool_call, result) ==
    [role |-> "tool", tool_call_id |-> tool_call.id,
     name |-> tool_call.function.name, content |-> result]

\* Line 451.
UnknownToolResult(func_name) == "Error: Unknown tool '" \o func_name \o "'"

\* The entry the history keeps of one dispatched invocation.
DispatchStep(tool_call, kind, outcome) ==
    [op |-> "dispatch", pos |-> tc_pos, id |-> tool_call.id,
     name |-> tool_call.function.name, kind |-> kind,
     args |-> ParseArgs(tool_call.function.arguments), outcome |-> outcome]

\* The for statement of line 435 after an invocation's body: the next
\* invocation, or the end of the iteration's body.
NextToolCall(step) ==
    IF tc_pos < Len(tool_calls)
    THEN /\ tc_pos' = tc_pos + 1
         /\ trace' = Append(trace, step)
         /\ UNCHANGED <<iteration, pc, exit_code>>
    ELSE /\ tc_pos' = tc_pos
         /\ NextIteration(Append(trace, step), "dispatched")

\* A variant of AppendToolMessage that inserts the tool Turn before the last
\* Turn of the history.
InsertToolMessage(store, tool_message) ==
    /\ messages' = SubSeq(store, 1, Len(store) - 1)
                       \o <<tool_message, store[Len(store)]>>
    /\ answers' = Append(answers, tool_message)

\* Line 484: messages.append(tool_message), on the history store.
AppendToolMessage(store, tool_message) ==
    /\ messages' = Append(store, tool_message)
    /\ answers' = Append(answers, tool_message)

\* A variant of DispatchUnknownTool in which the failed lookup raises.
DispatchUnknownToolRaises ==
    /\ pc = "dispatch"
    /\ CurrentToolCall.function.name \notin ToolMapNames
    /\ NextIteration(Append(trace, DispatchStep(CurrentToolCall, "unknown", "raised")),
                     "tool_raised")
    /\ UNCHANGED <<messages, token_count, accum, tool_calls, tc_pos,
                   stream_log, request, answers, completed>>

\* Lines 448-452 and 477-484: the name is not in the registry.
DispatchUnknownTool ==
    /\ pc = "dispatch"
    /\ CurrentToolCall.function.name \notin ToolMapNames
    /\ AppendToolMessage(messages,
                         ToolMessage(CurrentToolCall,
                                     UnknownToolResult(CurrentToolCall.function.name)))
    /\ NextToolCall(DispatchStep(CurrentToolCall, "unknown", "appended"))
    /\ UNCHANGED <<token_count, accum, tool_calls, stream_log, request, completed>>

\* A variant of DispatchCompressContext that leaves the history as it is
\* and only reports the compression.
DispatchCompressContextKeepsStore ==
    /\ pc = "dispatch"
    /\ CurrentToolCall.function.name \in ToolMapNames
    /\ CurrentToolCall.function.name = "compress_context"
    /\ LET result_data == CompressContextImpl(messages, KEEP_RECENT)
           replaced == "compressed_messages" \in DOMAIN result_data
       IN  /\ AppendToolMessage(messages,
                                ToolMessage(CurrentToolCall, result_data.message))
           /\ NextToolCall(DispatchStep(CurrentToolCall, "compress",
                                        IF replaced THEN "replaced" ELSE "kept"))
    /\ UNCHANGED <<token_count, accum, tool_calls, stream_log, request, completed>>

\* Lines 455-466 and 477-484: compress_context, the compressor returns.
DispatchCompressContext ==
    /\ pc = "dispatch"
    /\ CurrentToolCall.function.name \in ToolMapNames
    /\ CurrentToolCall.function.name = "compress_context"
    /\ LET result_data == CompressContextImpl(messages, KEEP_RECENT)
           result == IF "message" \in DOMAIN result_data THEN result_data.message
                     ELSE "Compression completed"
           replaced == "compressed_messages" \in DOMAIN result_data
       IN  /\ AppendToolMessage(IF replaced THEN result_data.compressed_messages
                                ELSE messages,
                                ToolMessage(CurrentToolCall, result))
           /\ NextToolCall(DispatchStep(CurrentToolCall, "compress",
                                        IF replaced THEN "replaced" ELSE "kept"))
    /\ UNCHANGED <<token_count, accum, tool_calls, stream_log, request, completed>>

\* Lines 456-461 raise: nothing catches it before line 504, continue.
DispatchCompressContextRaises ==
    /\ pc = "dispatch"
    /\ CurrentToolCall.function.name \in ToolMapNames
    /\ CurrentToolCall.function.name = "compress_context"
    /\ NextIteration(Append(trace, DispatchStep(CurrentToolCall, "compress", "raised")),
                     "compress_raised")
    /\ UNCHANGED <<messages, token_count, accum, tool_calls, tc_pos,
                   stream_log, request, answers, completed>>

\* Lines 469 and 477-484: the registry callable returns result.
DispatchTool(result) ==
    /\ pc = "dispatch"
    /\ CurrentToolCall.function.name \in ToolMapNames
    /\ CurrentToolCall.function.name # "compress_context"
    /\ ParseArgs(CurrentToolCall.function.arguments).isdict
    /\ AppendToolMessage(messages, ToolMessage(CurrentToolCall, result))
    /\ NextToolCall(DispatchStep(CurrentToolCall, "tool", "appended"))
    /\ UNCHANGED <<token_count, accum, tool_calls, stream_log, request, completed>>

\* Line 469 raises (the callable does, or ** does on arguments that are not
\* a dict): nothing catches it before line 504, continue.
DispatchToolRaises ==
    /\ pc = "dispatch"
    /\ CurrentToolCall.function.name \in ToolMapNames
    /\ CurrentToolCall.function.name # "compress_context"
    /\ NextIteration(Append(trace, DispatchStep(CurrentToolCall, "tool", "raised")),
                     "tool_raised")
    /\ UNCHANGED <<messages, token_count, accum, tool_calls, tc_pos,
                   stream_log, request, answers, completed>>

-----------------------------------------------------------------------------
(* Leaving the loop: KeyboardInterrupt, lines 486-502, and the cap,         *)
(* lines 509-529.                                                           *)

\* The control points inside the try of lines 280-485.
InsideTry == {"call", "stream", "dispatch"}

\* The control points of the loop outside that try, and the cap's save.
OutsideTry == {"estimate", "compress", "reestimate", "backup", "cap_save"}

\* The exit status of a Python process ended by an uncaught KeyboardInterrupt
\* (1, or 128 + SIGINT since Python 3.8).
UncaughtInterruptStatus == {1, 130}

\* Ctrl-C inside the try: the handler of line 486 is entered.
KeyboardInterrupt ==
    /\ pc \in InsideTry
    /\ pc' = "interrupted"
    /\ trace' = Append(trace, [op |-> "interrupt", at |-> pc])
    /\ UNCHANGED <<messages, iteration, token_count, accum, tool_calls, tc_pos,
                   exit_code, stream_log, request, answers, completed>>

\* Ctrl-C outside it: except Exception (lines 260, 276, 528) does not catch
\* KeyboardInterrupt, which leaves main uncaught.
UncaughtKeyboardInterrupt ==
    /\ pc \in OutsideTry
    /\ pc' = "crashed"
    /\ exit_code' \in {{c} : c \in UncaughtInterruptStatus}
    /\ trace' = Append(trace, [op |-> "interrupt", at |-> pc])
    /\ UNCHANGED <<messages, iteration, token_count, accum, tool_calls, tc_pos,
                   stream_log, request, answers, completed>>

\* Lines 489-499 and 502: the emergency save returns (its result is only
\* printed), then sys.exit(0).
EmergencySave ==
    /\ pc = "interrupted"
    /\ pc' = "exit"
    /\ exit_code' = {0}
    /\ trace' = Append(trace, CompressStep("interrupt", Len(messages), "ignored"))
    /\ UNCHANGED <<messages, iteration, token_count, accum, tool_calls, tc_pos,
                   stream_log, request, answers, completed>>

\* Lines 490-495 raise, or a second Ctrl-C arrives: the bare except of lines
\* 500-501 passes, then sys.exit(0).
EmergencySaveRaises ==
    /\ pc = "interrupted"
    /\ pc' = "exit"
    /\ exit_code' = {0}
    /\ trace' = Append(trace, CompressStep("interrupt", Len(messages), "ignored"))
    /\ UNCHANGED <<messages, iteration, token_count, accum, tool_calls, tc_pos,
                   stream_log, request, answers, completed>>

\* Lines 517-527: the save after the loop returns; main then returns.
CapSave ==
    /\ pc = "cap_save"
    /\ pc' = "exit"
    /\ exit_code' = {0}
    /\ trace' = Append(trace, CompressStep("cap", Len(messages), "ignored"))
    /\ UNCHANGED <<messages, iteration, token_count, accum, tool_calls, tc_pos,
                   stream_log, request, answers, completed>>

\* Lines 518-523 raise: except Exception, a message (lines 528-529); main
\* then returns.
CapSaveRaises ==
    /\ pc = "cap_save"
    /\ pc' = "exit"
    /\ exit_code' = {0}
    /\ trace' = Append(trace, CompressStep("cap", Len(messages), "ignored"))
    /\ UNCHANGED <<messages, iteration, token_count, accum, tool_calls, tc_pos,
                   stream_log, request, answers, completed>>

-----------------------------------------------------------------------------
(* What the provider streams.                                               *)

Delta(r, reasoning, content, tcs) ==
    [role |-> r, reasoning_content |-> reasoning, content |-> content,
     tool_calls |-> tcs]

ToolCallDelta(index, id, function) ==
    Delta(None, None, None, <<[index |-> index, id |-> id, function |-> function]>>)

\* The agent loop's streams.  The chunks: a text chunk, chunks that each
\* carry a whole invocation of slot 0 or 1 (the provider's ids differ from
\* slot to slot), an argument fragment without id, and a tc_delta without
\* function object.
LoopCalls(index) ==
    IF index = 0
    THEN { [name |-> "write_file", arguments |-> "{}"],
           [name |-> "write_file", arguments |-> "x"],
           [name |-> "compress_context", arguments |-> "{}"],
           [name |-> "bogus", arguments |-> "{}"] }
    ELSE { [name |-> "write_file", arguments |-> "{}"] }

LoopCallId(index) == IF index = 0 THEN "call_0" ELSE "call_1"

LoopDeltas ==
    {Delta("assistant", None, "hi", <<>>)}
    \cup {ToolCallDelta(i, LoopCallId(i), f) : i \in {0, 1}, f \in LoopCalls(0)}
    \cup {ToolCallDelta(0, None, [name |-> None, arguments |-> "x"])}
    \cup {ToolCallDelta(1, "call_1", NoFunction)}

\* The chunks that may follow what a stream of the agent loop has delivered
\* so far: the provider answers in text or in invocations, and sends each
\* invocation whole, in slot order.
LoopDeltasAfter(data, text) ==
    {d \in LoopDeltas :
        /\ d.tool_calls = <<>> => data = <<>>
        /\ \A k \in 1..Len(d.tool_calls) :
              /\ text = ""
              /\ d.tool_calls[k].index = Len(data)
              /\ Truthy(d.tool_calls[k].id) =>
                    d.tool_calls[k].function
                        \in LoopCalls(d.tool_calls[k].index) \cup {NoFunction}}

\* The accumulator specification's streams: every mix of id, name and
\* argument fragment on two slots, a tc_delta without function object, text
\* and reasoning chunks, and a chunk that carries two tc_deltas.
AccumIdNames ==
    { [id |-> None, name |-> None], [id |-> "a", name |-> "write_file"],
      [id |-> "b", name |-> "bogus"], [id |-> "b", name |-> None] }

AccumDeltas ==
    {ToolCallDelta(i, n.id, [name |-> n.name, arguments |-> a]) :
        i \in {0, 1}, n \in AccumIdNames, a \in {None, "x", "y"}}
    \cup {ToolCallDelta(1, "a", NoFunction)}
    \cup {Delta("assistant", None, "hi", <<>>), Delta(None, "hm", None, <<>>)}
    \cup {Delta(None, None, None,
                <<[index |-> 1, id |-> "b",
                   function |-> [name |-> "bogus", arguments |-> "y"]],
                  [index |-> 0, id |-> None,
                   function |-> [name |-> None, arguments |-> "x"]]>>)}

-----------------------------------------------------------------------------
(* The agent loop.                                                          *)

Next ==
    \/ \E n \in TokenCounts : EstimateTokens(n)
    \/ EstimateRaises
    \/ ThresholdCompress
    \/ ThresholdCompressRaises
    \/ \E n \in TokenCounts : ReestimateTokens(n)
    \/ ReestimateRaises
    \/ Backup
    \/ BackupRaises
    \/ CallModel
    \/ CallModelRaises
    \/ StreamEmptyChunk
    \/ \E d \in LoopDeltasAfter(tool_calls_data, content_text) :
          StreamChunk(d, MaxChunks)
    \/ StreamRaises
    \/ StreamEnd
    \/ DispatchUnknownTool
    \/ DispatchCompressContext
    \/ DispatchCompressContextRaises
    \/ \E r \in ToolResults : DispatchTool(r)
    \/ DispatchToolRaises
    \/ KeyboardInterrupt
    \/ UncaughtKeyboardInterrupt
    \/ EmergencySave
    \/ EmergencySaveRaises
    \/ CapSave
    \/ CapSaveRaises

Spec == Init /\ [][Next]_vars

(* The process runs until it ends: it always takes its next step.           *)
FairSpec == Spec /\ WF_vars(Next)

(* One stream, from the first model call on: the state after the token      *)
(* estimate raised and the request was accepted.                            *)
InitAccum ==
    /\ \E p \in UserPrompts : messages = InitialMessages(p, FALSE)
    /\ iteration = 1
    /\ pc = "stream"
    /\ token_count = 0
    /\ role = None
    /\ reasoning_content = ""
    /\ content_text = ""
    /\ tool_calls_data = <<>>
    /\ tool_calls = <<>>
    /\ tc_pos = 1
    /\ exit_code = {}
    /\ stream_log = <<>>
    /\ trace = <<[op |-> "begin", after |-> "start"], [op |-> "estimate_raised"],
                 [op |-> "call"]>>
    /\ request = messages
    /\ answers = <<>>
    /\ completed = FALSE

NextAccum ==
    \/ \E d \in AccumDeltas : StreamChunk(d, MaxAccumChunks)
    \/ StreamEnd

SpecAccum == InitAccum /\ [][NextAccum]_vars

(* The dispatch of one assistant Turn, from the state after the first       *)
(* iteration's estimate raised, the request was accepted and each of one or *)
(* two invocations arrived whole in a chunk of its own.  The invocations    *)
(* range over the three kinds of name and over argument strings that parse  *)
(* to an object, parse to something else, or do not parse.                  *)
DispatchNames == {"write_file", "compress_context", "bogus"}

DispatchArgTexts == {"{}", "{\"k\":1}", "1", "x", ""}

DispatchCalls ==
    {[name |-> n, arguments |-> a] : n \in DispatchNames, a \in DispatchArgTexts}

DispatchTurns ==
    {<<f>> : f \in DispatchCalls} \cup {<<f, g>> : f \in DispatchCalls, g \in DispatchCalls}

InitDispatch ==
    \E p \in UserPrompts, fs \in DispatchTurns :
        LET tcs == [i \in 1..Len(fs) |->
                       [index |-> i - 1, id |-> LoopCallId(i - 1), function |-> fs[i]]]
            data == ApplyToolCallDeltas(<<>>, tcs).data
            message == ReconstructedMessage(None, "", "", data)
        IN  /\ request = InitialMessages(p, FALSE)
            /\ messages = Append(request, ConvertMessageForApi(message))
            /\ iteration = 1
            /\ pc = "dispatch"
            /\ token_count = 0
            /\ role = None
            /\ reasoning_content = ""
            /\ content_text = ""
            /\ tool_calls_data = data
            /\ tool_calls = message.tool_calls
            /\ tc_pos = 1
            /\ exit_code = {}
            /\ stream_log = [i \in 1..Len(fs) |-> Delta(None, None, None, <<tcs[i]>>)]
            /\ trace = <<[op |-> "begin", after |-> "start"],
                         [op |-> "estimate_raised"], [op |-> "call"],
                         [op |-> "finalize", n |-> Len(message.tool_calls)]>>
            /\ answers = <<>>
            /\ completed = FALSE

NextDispatch ==
    \/ DispatchUnknownTool
    \/ DispatchCompressContext
    \/ DispatchCompressContextRaises
    \/ \E r \in ToolResults : DispatchTool(r)
    \/ DispatchToolRaises

SpecDispatch == InitDispatch /\ [][NextDispatch]_vars

(* The dispatch of one assistant Turn and, after it, the next iteration up  *)
(* to its model call.                                                       *)
NextTurn ==
    \/ NextDispatch
    \/ \E n \in TokenCounts : EstimateTokens(n)
    \/ EstimateRaises
    \/ ThresholdCompress
    \/ ThresholdCompressRaises
    \/ \E n \in TokenCounts : ReestimateTokens(n)
    \/ ReestimateRaises
    \/ Backup
    \/ BackupRaises
    \/ CallModel
    \/ CallModelRaises

SpecTurn == InitDispatch /\ [][NextTurn]_vars

-----------------------------------------------------------------------------
(* Vocabulary of the properties.                                            *)

Last(seq) == seq[Len(seq)]

\* The iteration's body has just ended for reason r: control is at the head
\* of the next iteration, or past the loop when the range was exhausted.
EndedBy(r) ==
    \/ pc = "estimate" /\ trace = <<[op |-> "begin", after |-> r]>>
    \/ pc = "cap_save" /\ Last(trace) = [op |-> "exhausted", after |-> r]

\* The ways a dispatch loop ends other than by Ctrl-C.
DispatchEndings == {"dispatched", "tool_raised", "compress_raised"}

\* The ways a model call fails: at the request, by the transport part-way
\* through the stream, or on a chunk the stream loop cannot handle.
ModelCallFailures == {"call_raised", "stream_raised", "chunk_raised"}

\* The tool invocations a Turn of the history carries.
TurnToolCalls(turn) ==
    IF "tool_calls" \in DOMAIN turn THEN turn.tool_calls ELSE <<>>

\* The position of the last assistant Turn before position j of store (0 if
\* there is none).
AssistantBefore(store, j) ==
    LET as == {a \in 1..(j - 1) : store[a].role = "assistant"}
    IN  IF as = {} THEN 0 ELSE CHOOSE a \in as : \A b \in as : b <= a

\* The positions of the steps of kind op in the iteration's history.
Steps(op) == {i \in 1..Len(trace) : trace[i].op = op}

-----------------------------------------------------------------------------
(* C1.  For every tool invocation of an appended assistant Turn the         *)
(* dispatch appends exactly one tool Turn carrying that invocation's id, on *)
(* every path: whenever a dispatch loop has ended (all invocations done, or *)
(* a tool callable or the compressor raised), the tool Turns appended for   *)
(* the Turn are one per invocation, in order, each with its invocation's    *)
(* id.  The code appends none for an invocation that raises, nor for the    *)
(* invocations after it.                                                    *)
C1_EveryInvocationAnswered ==
    (\E r \in DispatchEndings : EndedBy(r)) =>
        /\ Len(answers) = Len(tool_calls)
        /\ \A i \in 1..Len(answers) :
              /\ answers[i].role = "tool"
              /\ answers[i].tool_call_id = tool_calls[i].id

(* C2.  In every reachable history, every tool Turn's tool_call_id is the   *)
(* id of exactly one invocation of the nearest preceding assistant Turn,    *)
(* and only tool Turns lie between the two.  A shrinking compression keeps  *)
(* the last KEEP_RECENT Turns whatever they are, so the kept tail can begin *)
(* with tool Turns whose assistant Turn was summarized away.                *)
C2_ToolTurnsPaired ==
    \A j \in 1..Len(messages) :
        messages[j].role = "tool" =>
            LET a == AssistantBefore(messages, j)
            IN  /\ a > 0
                /\ \A k \in (a + 1)..(j - 1) : messages[k].role = "tool"
                /\ Cardinality({i \in 1..Len(TurnToolCalls(messages[a])) :
                                   TurnToolCalls(messages[a])[i].id
                                       = messages[j].tool_call_id}) = 1

(* C3.  A keyboard interrupt at any point of the loop ends the run through  *)
(* the interrupt handler: one snapshot-only compression (keep_recent = the  *)
(* history's length) is attempted and the process exits with status 0.      *)
(* Only the model call, the stream and the dispatch are inside the try      *)
(* whose handler does that; Ctrl-C during the token check, the threshold    *)
(* compression, the backup or the cap's save leaves main uncaught.          *)
C3_InterruptSavesAndExitsZero ==
    (exit_code # {} /\ Steps("interrupt") # {}) =>
        /\ exit_code = {0}
        /\ Last(trace).op = "compress"
        /\ Last(trace).site = "interrupt"
        /\ Last(trace).keep_recent = Len(messages)
        /\ Cardinality({i \in Steps("compress") : trace[i].site = "interrupt"}) = 1

(* C4.  When the model call fails, at the request or part-way through the   *)
(* stream, no Turn is appended: the history the next iteration starts with  *)
(* is the history the call was issued with, and control is at the head of   *)
(* the next iteration with the counter advanced by one (past the loop, the  *)
(* counter unchanged, when the failed iteration was the last of the range). *)
C4_FailedCallAppendsNothing ==
    [][ (pc \in {"call", "stream"} /\ (\E r \in ModelCallFailures : EndedBy(r)')) =>
            /\ messages' = messages
            /\ messages' = request'
            /\ IF iteration < MAX_ITERATIONS
               THEN iteration' = iteration + 1 /\ pc' = "estimate"
               ELSE iteration' = iteration /\ pc' = "cap_save"
            /\ exit_code' = {}
            /\ ~completed' ]_vars

\* A stream failed after fragments were accumulated, and the next iteration
\* starts with the history the call was issued with.
C4_Witness ==
    /\ EndedBy("stream_raised")
    /\ pc = "estimate"
    /\ iteration = 2
    /\ tool_calls_data # <<>>
    /\ stream_log # <<>>
    /\ messages = request

-----------------------------------------------------------------------------
(* The stream as the provider sent it, read off the chunk history.          *)

\* The tc_deltas of a sequence of chunks, in arrival order.
RECURSIVE ToolCallDeltasOf(_)
ToolCallDeltasOf(log) ==
    IF log = <<>> THEN <<>>
    ELSE Head(log).tool_calls \o ToolCallDeltasOf(Tail(log))

\* The positions in tcs of the tc_deltas for slot index i that carry an id
\* / a name.
IdEvents(tcs, i) ==
    {k \in 1..Len(tcs) : tcs[k].index = i /\ Truthy(tcs[k].id)}

NameEvents(tcs, i) ==
    {k \in 1..Len(tcs) :
        tcs[k].index = i /\ tcs[k].function # NoFunction
        /\ Truthy(tcs[k].function.name)}

Max(S) == CHOOSE m \in S : \A n \in S : n <= m

\* The argument fragments for slot index i, concatenated in arrival order.
RECURSIVE Fragments(_, _)
Fragments(tcs, i) ==
    IF tcs = <<>> THEN ""
    ELSE (IF Head(tcs).index = i /\ Head(tcs).function # NoFunction
             /\ Truthy(Head(tcs).function.arguments)
          THEN Head(tcs).function.arguments ELSE "")
         \o Fragments(Tail(tcs), i)

\* The slots that were given an id, by increasing index below n, each with
\* the last id it was given and its concatenated fragments.
RECURSIVE IdentifiedSlots(_, _)
IdentifiedSlots(tcs, n) ==
    IF n = 0 THEN <<>>
    ELSE IF IdEvents(tcs, n - 1) = {} THEN IdentifiedSlots(tcs, n - 1)
    ELSE Append(IdentifiedSlots(tcs, n - 1),
                [id |-> tcs[Max(IdEvents(tcs, n - 1))].id,
                 arguments |-> Fragments(tcs, n - 1)])

\* One more than the highest slot index the tc_deltas mention.
SlotCount(tcs) ==
    IF tcs = <<>> THEN 0 ELSE Max({tcs[k].index : k \in 1..Len(tcs)}) + 1

\* The (id, arguments) pairs of a Turn's invocations, in the Turn's order.
InvocationsOf(turn) ==
    [i \in 1..Len(TurnToolCalls(turn)) |->
        [id |-> TurnToolCalls(turn)[i].id,
         arguments |-> TurnToolCalls(turn)[i].function.arguments]]

\* The assistant Turn has just been finalized and appended.
Finalized == Last(trace).op = "finalize"

(* C5.  The finalized assistant Turn holds exactly the slots that some      *)
(* event gave an id, in increasing slot-index order, each with the          *)
(* concatenation of all argument fragments sent for its index, in arrival   *)
(* order; a slot that got fragments, or was only created as a placeholder,  *)
(* but never an id is absent.  (Stated for every stream, also those that    *)
(* send fragments for a slot before its id.)                                *)
C5_FinalizedTurnHoldsIdentifiedSlots ==
    Finalized =>
        LET tcs == ToolCallDeltasOf(stream_log)
        IN  /\ Last(messages).role = "assistant"
            /\ InvocationsOf(Last(messages)) = IdentifiedSlots(tcs, SlotCount(tcs))

\* Finalized: slot 0 got a fragment and no id and is absent, slot 1 got its
\* id first and two fragments, which the Turn carries concatenated in order.
C5_Witness ==
    /\ Finalized
    /\ Len(tool_calls_data) = 2
    /\ tool_calls_data[1].id = None
    /\ tool_calls_data[1].function.arguments = "x"
    /\ Len(stream_log) = 2
    /\ InvocationsOf(Last(messages)) = <<[id |-> "b", arguments |-> "yx"]>>

\* The slot of index i - 1 before a chunk is applied to data.
SlotBefore(data, i) == IF i <= Len(data) THEN data[i] ELSE EmptySlot

\* A step of the stream loop that consumes one chunk without raising.
ChunkStep ==
    /\ pc = "stream"
    /\ pc' = "stream"
    /\ Len(stream_log') = Len(stream_log) + 1

(* C6 as stated.  Within one stream a slot's id is set once: after the      *)
(* first event with a non-empty id for the index no later event changes it, *)
(* likewise the name; the argument string only grows by appending.          *)
C6_IdAndNameSetOnce ==
    [][ ChunkStep =>
          \A i \in 1..Len(tool_calls_data) :
              /\ Truthy(tool_calls_data[i].id) =>
                    tool_calls_data'[i].id = tool_calls_data[i].id
              /\ Truthy(tool_calls_data[i].function.name) =>
                    tool_calls_data'[i].function.name
                        = tool_calls_data[i].function.name
              /\ tool_calls_data'[i].function.arguments
                    = tool_calls_data[i].function.arguments
                      \o Fragments(Last(stream_log').tool_calls, i - 1) ]_vars

(* C6 as amended.  Within one stream a slot is never removed and its id and *)
(* name, once non-empty, stay non-empty, but they are not fixed: every      *)
(* event with a non-empty id (name) for the index overwrites the slot's id  *)
(* (name), so the last non-empty value wins; the argument string only       *)
(* grows, by the event's fragment appended at its end.                      *)
C6_IdAndNameLastWins ==
    [][ ChunkStep =>
          LET tcs == Last(stream_log').tool_calls
          IN  /\ Len(tool_calls_data') >= Len(tool_calls_data)
              /\ \A i \in 1..Len(tool_calls_data') :
                    LET old == SlotBefore(tool_calls_data, i)
                        new == tool_calls_data'[i]
                    IN  /\ new.id = IF IdEvents(tcs, i - 1) = {} THEN old.id
                                    ELSE tcs[Max(IdEvents(tcs, i - 1))].id
                        /\ new.function.name =
                              IF NameEvents(tcs, i - 1) = {} THEN old.function.name
                              ELSE tcs[Max(NameEvents(tcs, i - 1))].function.name
                        /\ Truthy(old.id) => Truthy(new.id)
                        /\ Truthy(old.function.name) => Truthy(new.function.name)
                        /\ new.function.arguments
                              = old.function.arguments \o Fragments(tcs, i - 1) ]_vars

\* Slot 0 was given id "a" and then id "b", and holds "b"; its name, given
\* once, is still the first event's.
C6_Witness ==
    /\ pc = "stream"
    /\ Len(stream_log) = 2
    /\ ToolCallDeltasOf(stream_log)[1].index = 0
    /\ ToolCallDeltasOf(stream_log)[1].id = "a"
    /\ ToolCallDeltasOf(stream_log)[2].index = 0
    /\ ToolCallDeltasOf(stream_log)[2].id = "b"
    /\ tool_calls_data[1].id = "b"
    /\ tool_calls_data[1].function.name = "write_file"
    /\ tool_calls_data[1].function.arguments = "xy"

-----------------------------------------------------------------------------
\* The step that finalizes the streamed assistant Turn and appends it.
FinalizeStep ==
    /\ pc = "stream"
    /\ Len(messages') = Len(messages) + 1

\* No slot of the accumulator was ever given an id.
NoSurvivingSlot ==
    \A i \in 1..Len(tool_calls_data) : ~Truthy(tool_calls_data[i].id)

(* C7.  The loop is left as DONE exactly by a finalize step whose Turn has  *)
(* no surviving slot, also when slots were streamed and none got an id: the *)
(* Turn is appended without invocations and control leaves the loop; a      *)
(* finalize step with a surviving slot goes on to the dispatch and no other *)
(* step completes; once DONE, no model call is issued, nothing is           *)
(* dispatched and the history is not changed again.                         *)
C7_DoneIffNoSurvivingSlot ==
    [][ /\ FinalizeStep =>
              /\ completed' <=> NoSurvivingSlot
              /\ Last(messages').role = "assistant"
              /\ completed' =>
                    /\ TurnToolCalls(Last(messages')) = <<>>
                    /\ pc' \in {"exit", "cap_save"}
              /\ ~completed' =>
                    /\ TurnToolCalls(Last(messages')) # <<>>
                    /\ pc' = "dispatch"
        /\ ~FinalizeStep => completed' = completed
        /\ completed =>
              /\ messages' = messages
              /\ request' = request
              /\ answers' = answers
              /\ stream_log' = stream_log
              /\ pc' \in {"cap_save", "exit", "crashed"}
              /\ \A i \in 1..Len(trace') :
                    trace'[i].op \in {"call", "dispatch"} => i <= Len(trace)
      ]_vars

\* DONE in the first iteration, after a stream that sent a slot without an
\* id: the Turn was appended with no invocations and the process has exited.
C7_Witness ==
    /\ completed
    /\ pc = "exit"
    /\ exit_code = {0}
    /\ iteration = 1
    /\ tool_calls_data # <<>>
    /\ TurnToolCalls(Last(messages)) = <<>>
    /\ Last(messages).role = "assistant"

(* C8.  The invocations of one assistant Turn are dispatched one at a time  *)
(* in the Turn's order, their tool Turns are appended in that order, and a  *)
(* model call is never issued while an invocation of the most recent        *)
(* assistant Turn of the history lacks its tool Turn.  The code issues the  *)
(* next call with the invocations unanswered after a tool callable or the   *)
(* compressor raised in the dispatch.                                       *)
C8_DispatchInOrder ==
    /\ \A d \in Steps("dispatch") :
          /\ trace[d].pos = Cardinality({e \in Steps("dispatch") : e <= d})
          /\ trace[d].id = tool_calls[trace[d].pos].id
    /\ Len(answers) <= Len(tool_calls)
    /\ \A i \in 1..Len(answers) : answers[i].tool_call_id = tool_calls[i].id

C8_NoCallWithPendingInvocation ==
    pc = "stream" =>
        LET a == AssistantBefore(request, Len(request) + 1)
        IN  a > 0 =>
              \A k \in 1..Len(TurnToolCalls(request[a])) :
                  \E j \in (a + 1)..Len(request) :
                      /\ request[j].role = "tool"
                      /\ request[j].tool_call_id = TurnToolCalls(request[a])[k].id

C8_OrderedDispatchBeforeNextCall ==
    C8_DispatchInOrder /\ C8_NoCallWithPendingInvocation

-----------------------------------------------------------------------------
\* The step that issues the iteration's model call (line 283), whether the
\* request is accepted or raises.
IssueStep ==
    /\ pc = "call"
    /\ pc' = "stream" \/ EndedBy("call_raised")'

\* The threshold compressions of the iteration's history.
ThresholdSteps == {i \in Steps("compress") : trace[i].site = "threshold"}

(* C9.  When the model call of an iteration is issued: an estimate of that  *)
(* iteration with count >= COMPRESSION_THRESHOLD, equality included, was    *)
(* followed by a call of the compressor with keep_recent = KEEP_RECENT, and *)
(* if that call returned a replacement the request carries the replacement; *)
(* an estimate below the threshold was followed by no threshold             *)
(* compression.  The estimate itself leads to the compressor exactly when   *)
(* the count is at or over the threshold.                                   *)
C9_ThresholdCompressesBeforeCall ==
    [][ /\ IssueStep =>
              /\ request' = messages
              /\ \A e \in Steps("estimate") :
                    IF trace[e].count >= COMPRESSION_THRESHOLD
                    THEN \E c \in ThresholdSteps :
                            /\ c = e + 1
                            /\ trace[c].keep_recent = KEEP_RECENT
                            /\ trace[c].outcome = "replaced" =>
                                  /\ request' = trace[c].store
                                  /\ Len(request') = KEEP_RECENT + 2
                    ELSE ThresholdSteps = {}
        /\ (pc = "estimate" /\ pc' # "crashed") =>
              (pc' = "compress" <=> /\ Last(trace').op = "estimate"
                                    /\ Last(trace').count >= COMPRESSION_THRESHOLD)
      ]_vars

\* The call was issued after an estimate equal to the threshold and a
\* compression that returned a replacement, which is what was sent.
C9_Witness ==
    /\ pc = "stream"
    /\ \E e \in Steps("estimate") :
          /\ trace[e].count = COMPRESSION_THRESHOLD
          /\ trace[e + 1].op = "compress"
          /\ trace[e + 1].site = "threshold"
          /\ trace[e + 1].outcome = "replaced"
          /\ request = trace[e + 1].store
    /\ Len(request) = KEEP_RECENT + 2

(* C10.  A token estimate that raises leaves the history as it was, sets    *)
(* the count to 0 and goes on, in the same iteration, to the backup check   *)
(* and then the model call, without ending the run; no threshold            *)
(* compression is called in an iteration whose estimate raised.             *)
C10_EstimateFailureIsNotFatal ==
    [][ /\ (/\ pc = "estimate"
            /\ Len(trace') = Len(trace) + 1
            /\ Last(trace').op = "estimate_raised") =>
              /\ messages' = messages
              /\ token_count' = 0
              /\ iteration' = iteration
              /\ pc' = IF iteration % BACKUP_INTERVAL = 0 THEN "backup" ELSE "call"
              /\ exit_code' = {}
              /\ completed' = completed
        /\ (pc = "estimate" /\ pc' # "crashed") =>
              pc' \in {"compress", "backup", "call"}
        /\ (IssueStep /\ Steps("estimate_raised") # {}) =>
              /\ ThresholdSteps = {}
              /\ Steps("estimate") = {}
              /\ request' = messages
      ]_vars

\* The estimate raised in an iteration with a backup due; the backup ran and
\* the model call of that iteration was issued, with no compression before.
C10_Witness ==
    /\ pc = "stream"
    /\ iteration = BACKUP_INTERVAL
    /\ token_count = 0
    /\ Steps("estimate_raised") # {}
    /\ \E b \in Steps("compress") : trace[b].site = "backup"
    /\ ThresholdSteps = {}
    /\ request = messages

-----------------------------------------------------------------------------
\* The step is not the arrival of a Ctrl-C.
NotInterrupt == pc' \notin {"interrupted", "crashed"}

\* Where control goes when the body of iteration i ends without completion.
\* (Stated apart from the loop's own definitions.)
LoopGoesOn ==
    /\ exit_code' = {}
    /\ completed' = completed
    /\ IF iteration < MAX_ITERATIONS
       THEN iteration' = iteration + 1 /\ pc' = "estimate"
       ELSE iteration' = iteration /\ pc' = "cap_save"

(* C11.  When the compressor raises inside the loop the run goes on with    *)
(* the history it had: at the threshold compression and at the periodic     *)
(* backup the same iteration continues towards its model call; in the       *)
(* dispatch of compress_context the iteration is abandoned and the loop     *)
(* goes on with the next one (or, the range exhausted, with the save after  *)
(* the loop).  In no case is the history replaced or the process ended.     *)
C11_CompressorFailureKeepsStore ==
    [][ /\ (/\ pc = "compress"
            /\ Len(trace') = Len(trace) + 1
            /\ Last(trace').op = "compress"
            /\ Last(trace').outcome = "raised") =>
              /\ messages' = messages
              /\ iteration' = iteration
              /\ pc' = IF iteration % BACKUP_INTERVAL = 0 THEN "backup" ELSE "call"
              /\ exit_code' = {}
              /\ completed' = completed
        /\ (pc = "backup" /\ NotInterrupt) =>
              /\ messages' = messages
              /\ iteration' = iteration
              /\ pc' = "call"
              /\ exit_code' = {}
              /\ completed' = completed
        /\ (pc = "dispatch" /\ EndedBy("compress_raised")') =>
              /\ messages' = messages
              /\ LoopGoesOn
      ]_vars

\* The compressor raised in the dispatch of the iteration before and at the
\* threshold compression of this one, whose backup has run too; the model
\* call is issued with the history as the dispatch left it.
C11_Witness ==
    /\ pc = "stream"
    /\ trace[1] = [op |-> "begin", after |-> "compress_raised"]
    /\ \E c \in ThresholdSteps : trace[c].outcome = "raised"
    /\ \E b \in Steps("compress") : trace[b].site = "backup"
    /\ request = messages
    /\ Last(messages).role = "assistant"
    /\ TurnToolCalls(Last(messages))[1].function.name = "compress_context"

-----------------------------------------------------------------------------
\* The entry of the step's dispatched invocation in the iteration's history
\* (the history is reset when the step ends the iteration).
Dispatched(kind, outcome) ==
    \/ /\ Len(trace') = Len(trace) + 1
       /\ Last(trace').op = "dispatch"
       /\ Last(trace').kind = kind
       /\ Last(trace').outcome = outcome
    \/ /\ Len(trace') = Len(trace) + 2
       /\ trace'[Len(trace) + 1].op = "dispatch"
       /\ trace'[Len(trace) + 1].kind = kind
       /\ trace'[Len(trace) + 1].outcome = outcome
    \/ trace' = <<[op |-> "begin", after |-> "dispatched"]>>

(* C12.  The dispatch of an invocation whose name is not in the registry    *)
(* does not raise and calls no callable: it appends one tool Turn with the  *)
(* invocation's id and name and the text "Error: Unknown tool '<name>'",    *)
(* then goes to the next invocation of the Turn if there is one, and else   *)
(* to the next iteration.                                                   *)
C12_UnknownToolAnswered ==
    [][ (/\ pc = "dispatch"
         /\ tool_calls[tc_pos].function.name \notin ToolMapNames
         /\ pc' # "interrupted") =>
          LET tool_call == tool_calls[tc_pos]
              text == "Error: Unknown tool '" \o tool_call.function.name \o "'"
          IN  /\ messages' = Append(messages,
                    [role |-> "tool", tool_call_id |-> tool_call.id,
                     name |-> tool_call.function.name, content |-> text])
              /\ Len(text) > 0
              /\ answers' = Append(answers, Last(messages'))
              /\ Dispatched("unknown", "appended")
              /\ IF tc_pos < Len(tool_calls)
                 THEN /\ pc' = "dispatch"
                      /\ tc_pos' = tc_pos + 1
                      /\ iteration' = iteration
                      /\ exit_code' = {}
                 ELSE LoopGoesOn
      ]_vars

\* The first invocation named a tool the registry does not have and was
\* answered with the error text; the second one was then dispatched and the
\* loop is in its next iteration.
C12_Witness ==
    /\ pc = "estimate"
    /\ iteration = 2
    /\ EndedBy("dispatched")
    /\ Len(tool_calls) = 2
    /\ Len(answers) = 2
    /\ answers[1].name = "bogus"
    /\ answers[1].content = "Error: Unknown tool 'bogus'"
    /\ answers[2].name = "write_file"
    /\ messages[Len(messages) - 1] = answers[1]

-----------------------------------------------------------------------------
\* The argument string does not parse as JSON.
Unparsable(args_str) == ~JsonLoads(args_str).ok

\* The invocation with the argument string of an empty JSON object.
WithEmptyObject(tool_call) ==
    [tool_call EXCEPT !.function.arguments = "{}"]

\* The invocation being dispatched is a registry callable's.
AtRegistryCallable ==
    /\ pc = "dispatch"
    /\ tool_calls[tc_pos].function.name \in ToolMapNames \ {"compress_context"}

(* C13.  Whatever the name, the dispatch of an invocation whose argument    *)
(* string does not parse does what the dispatch of the same invocation      *)
(* with the argument string "{}" does in the same state: the arguments      *)
(* handed on are those parsed from "{}", the tool Turn appended is the one  *)
(* of the "{}" invocation and so is the resulting history; a registry       *)
(* callable is called, and may return each of its results, as it is and     *)
(* may for "{}".                                                            *)
C13_UnparsableAsEmptyObject ==
    /\ [](  (AtRegistryCallable /\ Unparsable(tool_calls[tc_pos].function.arguments)) =>
               /\ \A r \in ToolResults : ENABLED DispatchTool(r)
               /\ ENABLED DispatchToolRaises )
    /\ [][ (/\ pc = "dispatch"
            /\ Unparsable(tool_calls[tc_pos].function.arguments)
            /\ pc' # "interrupted") =>
              LET tool_call == tool_calls[tc_pos]
                  twin == WithEmptyObject(tool_call)
                  name == tool_call.function.name
                  kind == IF name \notin ToolMapNames THEN "unknown"
                          ELSE IF name = "compress_context" THEN "compress"
                          ELSE "tool"
                  raised == \E r \in {"tool_raised", "compress_raised"} : EndedBy(r)'
                  step == IF Len(trace') > Len(trace) THEN trace'[Len(trace) + 1]
                          ELSE DispatchStep(tool_call, kind, "reset")
              IN  /\ step.args = ParseArgs("{}")
                  /\ step.args = [isdict |-> TRUE, value |-> {}]
                  /\ step.kind = kind
                  /\ IF raised THEN messages' = messages
                     ELSE \E result \in ToolResults
                                  \cup {UnknownToolResult(name),
                                        CompressContextImpl(messages, KEEP_RECENT).message} :
                          /\ Last(messages') = ToolMessage(twin, result)
                          /\ Len(messages') = 1 + (IF kind = "compress"
                                 /\ "compressed_messages" \in
                                       DOMAIN CompressContextImpl(messages, KEEP_RECENT)
                                 THEN KEEP_RECENT + 2 ELSE Len(messages))
                          /\ kind # "compress" =>
                                messages' = Append(messages, ToolMessage(twin, result))
         ]_vars

\* The first of two invocations, of a registry callable with the argument
\* string "x", was called with the empty object and answered.
C13_Witness ==
    /\ pc = "dispatch"
    /\ tc_pos = 2
    /\ tool_calls[1].function.name = "write_file"
    /\ tool_calls[1].function.arguments = "x"
    /\ Last(trace).op = "dispatch"
    /\ Last(trace).pos = 1
    /\ Last(trace).args = [isdict |-> TRUE, value |-> {}]
    /\ Last(trace).outcome = "appended"
    /\ Last(messages).role = "tool"
    /\ Last(messages).tool_call_id = tool_calls[1].id

-----------------------------------------------------------------------------
\* The periodic backups of the iteration's history.
BackupSteps == {i \in Steps("compress") : trace[i].site = "backup"}

\* The kinds of step the token check leaves in the iteration's history.
BudgetOps ==
    {"begin", "estimate", "estimate_raised", "compress", "reestimate",
     "reestimate_raised"}

(* C14.  When an iteration's model call is issued, the periodic backup has  *)
(* run in that iteration exactly if the iteration number is a multiple of   *)
(* BACKUP_INTERVAL, and then once, as the last thing before the call and    *)
(* after the token check, with keep_recent = the length of the history.     *)
(* The backup is entered only from the token check of such an iteration,    *)
(* and whether the compressor returns or raises, the history is left as it  *)
(* was and the iteration goes on to the model call.                         *)
C14_BackupEveryInterval ==
    [][ /\ IssueStep =>
              /\ (iteration % BACKUP_INTERVAL = 0) <=> (BackupSteps # {})
              /\ \A b \in BackupSteps :
                    /\ b = Len(trace)
                    /\ trace[b].keep_recent = Len(messages)
                    /\ \A j \in 1..(b - 1) :
                          /\ trace[j].op \in BudgetOps
                          /\ trace[j].op = "compress" => trace[j].site = "threshold"
        /\ (pc' = "backup" /\ pc # "backup") =>
              /\ iteration % BACKUP_INTERVAL = 0
              /\ pc \in {"estimate", "compress", "reestimate"}
              /\ iteration' = iteration
        /\ (pc = "backup" /\ NotInterrupt) =>
              /\ messages' = messages
              /\ pc' = "call"
              /\ iteration' = iteration
              /\ exit_code' = {}
              /\ trace' = Append(trace,
                     [op |-> "compress", site |-> "backup",
                      keep_recent |-> Len(messages), outcome |-> "ignored"])
      ]_vars

\* Iteration BACKUP_INTERVAL: the threshold compression replaced the
\* history, the backup then ran on the replacement and the model call was
\* issued with it.
C14_Witness ==
    /\ pc = "stream"
    /\ iteration = BACKUP_INTERVAL
    /\ \E c \in ThresholdSteps : trace[c].outcome = "replaced"
    /\ \E b \in BackupSteps :
          /\ b = Len(trace) - 1
          /\ trace[b].keep_recent = Len(messages)
          /\ trace[b].keep_recent = KEEP_RECENT + 2
    /\ request = messages

-----------------------------------------------------------------------------
\* The saves after the loop in the history.
CapSteps == {i \in Steps("compress") : trace[i].site = "cap"}

\* The control points of the loop's body.
InLoop ==
    {"estimate", "compress", "reestimate", "backup", "call", "stream", "dispatch"}

(* C15.  When the body of iteration MAX_ITERATIONS ends without a finalized *)
(* Turn free of invocations, control goes to the save after the loop, with  *)
(* the iteration counter at MAX_ITERATIONS.  From there no model call is    *)
(* issued and nothing is dispatched: the one step taken (Ctrl-C aside) is   *)
(* one call of the compressor with keep_recent = the length of the history, *)
(* after which, whether it returned or raised, the history is what it was   *)
(* and the program ends normally.                                           *)
C15_CapReachedSavesOnce ==
    [][ /\ (/\ pc \in InLoop
            /\ pc' \notin InLoop \cup {"interrupted", "crashed"}
            /\ ~completed') =>
              /\ pc' = "cap_save"
              /\ iteration = MAX_ITERATIONS
              /\ iteration' = MAX_ITERATIONS
              /\ Last(trace').op = "exhausted"
              /\ exit_code' = {}
        /\ (pc \in InLoop /\ pc' = "estimate" /\ pc # "estimate") =>
              /\ iteration < MAX_ITERATIONS
              /\ iteration' = iteration + 1
        /\ (pc = "cap_save" /\ ~completed) =>
              /\ CapSteps = {}
              /\ messages' = messages
              /\ request' = request
              /\ answers' = answers
              /\ iteration' = iteration
              /\ pc' \in {"exit", "crashed"}
              /\ pc' = "exit" =>
                    /\ exit_code' = {0}
                    /\ trace' = Append(trace,
                           [op |-> "compress", site |-> "cap",
                            keep_recent |-> Len(messages), outcome |-> "ignored"])
        /\ (pc = "exit" /\ ~completed) => UNCHANGED vars
      ]_vars

\* Every iteration ran, the last one ended by a failed model call; the save
\* after the loop was attempted once and the program has ended.
C15_Witness ==
    /\ pc = "exit"
    /\ ~completed
    /\ exit_code = {0}
    /\ iteration = MAX_ITERATIONS
    /\ Cardinality(CapSteps) = 1
    /\ Last(trace).op = "compress"
    /\ Last(trace).site = "cap"
    /\ Last(trace).keep_recent = Len(messages)
    /\ trace[Len(trace) - 1] = [op |-> "exhausted", after |-> "call_raised"]

-----------------------------------------------------------------------------
\* The process has ended.
Terminated == pc \in {"exit", "crashed"}

\* The ways a run is to end.
EndedDone == pc = "exit" /\ completed

EndedCapReached == pc = "exit" /\ CapSteps # {}

EndedInterrupted ==
    /\ pc = "exit"
    /\ \E i \in Steps("compress") : trace[i].site = "interrupt"

\* The run ends.
RunEnds == <>Terminated

\* An iteration issues at most one model call and there are at most
\* MAX_ITERATIONS iterations: the call is issued only in an iteration that
\* has issued none, the iteration number stays within the range and never
\* goes down, and a failed request ends the iteration.
AtMostOneCallPerIteration ==
    /\ [](iteration \in 1..MAX_ITERATIONS)
    /\ [][ /\ iteration' >= iteration
           /\ IssueStep => Steps("call") = {} /\ Steps("exhausted") = {}
           /\ (pc = "call" /\ pc' = "stream") =>
                 iteration' = iteration /\ Steps("call")' # {}
           /\ (pc = "call" /\ EndedBy("call_raised")') =>
                 iteration' > iteration \/ Steps("exhausted")' # {}
           /\ (pc' = "call" /\ pc # "call") =>
                 Steps("call")' = {} /\ Steps("exhausted")' = {} ]_vars

(* C16.  Every run ends, as DONE, CAP_REACHED or INTERRUPTED, having issued *)
(* at most one model call in each of at most MAX_ITERATIONS iterations,     *)
(* whatever fails on the way.  A run that Ctrl-C reaches outside the try of *)
(* the model call ends as none of the three.                                *)
C16_RunEndsDoneCapOrInterrupted ==
    /\ RunEnds
    /\ [](Terminated => EndedDone \/ EndedCapReached \/ EndedInterrupted)
    /\ AtMostOneCallPerIteration

-----------------------------------------------------------------------------
(* C17.  In every reachable state the history is not empty, its first Turn  *)
(* has role system and no other Turn has: from the initial history, fresh   *)
(* or recovered, through every append and every replacement by the          *)
(* compressor.                                                              *)
C17_ExactlyOneLeadingSystemTurn ==
    /\ Len(messages) >= 1
    /\ messages[1].role = "system"
    /\ \A j \in 2..Len(messages) : messages[j].role # "system"

\* A run started in recovery mode whose history was replaced by the
\* compressor in a dispatch and appended to afterwards.
C17_Witness ==
    /\ Len(request) >= 2
    /\ \E p \in Snapshots : request[2] = InitialMessages(p, TRUE)[2]
    /\ messages[1] = InitialMessages("", FALSE)[1]
    /\ messages[2] = SummaryTurn
    /\ Len(messages) > KEEP_RECENT + 2
    /\ Last(messages).role = "tool"

-----------------------------------------------------------------------------
\* The invocation being dispatched is compress_context, found in the
\* registry.
AtCompressContext ==
    /\ pc = "dispatch"
    /\ tool_calls[tc_pos].function.name = "compress_context"
    /\ "compress_context" \in ToolMapNames

\* The tool Turns of the last dispatch from the last one that reports a
\* replacement by the compressor on (none if there is no such Turn).
SinceReplacement ==
    LET ks == {k \in 1..Len(answers) :
                  /\ answers[k].name = "compress_context"
                  /\ answers[k].content = "Context compressed"}
    IN  IF ks = {} THEN <<>> ELSE SubSeq(answers, Max(ks), Len(answers))

-----------------------------------------------------------------------------
\* The step assigns the compressor's replacement to the history: at the
\* threshold compression (line 252) or in the dispatch of compress_context
\* (line 466).
ReplacementStep ==
    \/ pc = "compress" /\ pc' = "reestimate"
    \/ /\ AtCompressContext
       /\ "compressed_messages" \in DOMAIN CompressContextImpl(messages, KEEP_RECENT)
       /\ messages' # messages

(* C19.  A step that is not a replacement of the history by the compressor  *)
(* changes the history, if at all, by appending one Turn at its end: the    *)
(* Turns it held keep their places and contents.                            *)
C19_AppendOnly ==
    [][ ~ReplacementStep =>
          \/ messages' = messages
          \/ /\ Len(messages') = Len(messages) + 1
             /\ SubSeq(messages', 1, Len(messages)) = messages ]_vars

\* After the first iteration: the history is the request sent, the assistant
\* Turn with two invocations and their two tool Turns, in that order.
C19_Witness ==
    /\ pc = "estimate"
    /\ iteration = 2
    /\ Len(tool_calls) = 2
    /\ Len(answers) = 2
    /\ Len(messages) = Len(request) + 3
    /\ SubSeq(messages, 1, Len(request)) = request
    /\ messages[Len(request) + 1].role = "assistant"
    /\ SubSeq(messages, Len(request) + 2, Len(messages)) = answers

-----------------------------------------------------------------------------
\* The user Turn's content in recovery mode, for recovered snapshot p.
RecoveredContext(p) ==
    "[RECOVERED CONTEXT]\n\n" \o p
        \o "\n\n[END RECOVERED CONTEXT]\n\nPlease continue the work from where we left off."

\* The first iteration before its assistant Turn is appended.
FirstIterationBeforeAppend ==
    /\ iteration = 1
    /\ trace[1] = [op |-> "begin", after |-> "start"]
    /\ pc \in {"estimate", "compress", "reestimate", "backup", "call", "stream"}

\* The first iteration's response has been finalized and was content only.
FirstResponseContentOnly ==
    /\ iteration = 1
    /\ Finalized
    /\ tool_calls_data = <<>>
    /\ content_text # ""

(* C20.  The loop starts with a history of exactly two Turns, the system    *)
(* Turn and a user Turn that is the prompt as typed or the recovered        *)
(* snapshot between the recovered-context markers, and keeps it until the   *)
(* first response is appended.  If the first iteration's response streams   *)
(* content and no tool call, the loop is left as DONE in iteration 1 with a *)
(* history of three Turns: the two it sent and the assistant Turn with the  *)
(* streamed content.                                                        *)
C20_FirstResponseWithoutToolsCompletes ==
    /\ FirstIterationBeforeAppend =>
          /\ Len(messages) = 2
          /\ messages[1].role = "system"
          /\ messages[2].role = "user"
          /\ messages[2].content
                \in UserPrompts \cup {RecoveredContext(p) : p \in Snapshots}
          /\ ~completed
    /\ FirstResponseContentOnly =>
          /\ completed
          /\ Len(messages) = 3
          /\ Len(request) = 2
          /\ SubSeq(messages, 1, 2) = request
          /\ messages[3] = [role |-> "assistant", content |-> content_text]
          /\ Steps("dispatch") = {}
          /\ MAX_ITERATIONS > 1 => pc = "exit" /\ exit_code = {0}

\* The prompt "write a haiku" was answered with the text "hi" and nothing
\* else: DONE in iteration 1, three Turns.
C20_Witness ==
    /\ completed
    /\ iteration = 1
    /\ pc = "exit"
    /\ messages[2] = [role |-> "user", content |-> "write a haiku"]
    /\ Len(messages) = 3
    /\ messages[3] = [role |-> "assistant", content |-> "hi"]
    /\ stream_log # <<>>

-----------------------------------------------------------------------------
(* C21.  A run whose loop was left because a finalized Turn carried no      *)
(* invocation never performs the save after the loop, whichever iteration   *)
(* produced that Turn: once DONE, control is never at that save and the     *)
(* history holds no step of it.  In the code the break of iteration         *)
(* MAX_ITERATIONS leaves the loop variable at MAX_ITERATIONS, so the test   *)
(* after the loop is true and the save runs.                                *)
C21_DoneExcludesCapReached ==
    completed => pc # "cap_save" /\ CapSteps = {}

=============================================================================
